---------------------------- MODULE Spec2Model ----------------------------
(***************************************************************************)
(* Model of pcap.StartCapture (src/pcap/capture.go): the capture loop that *)
(* demultiplexes packets by transport flow, accumulates TCP payload in     *)
(* per-flow session buffers and hands the buffers to a data handler.       *)
(*                                                                         *)
(* A flow F of the session table is identified by its flow identifier, the *)
(* key flowHash of the map sessionBuffers.  A logical flow (connection) is *)
(* the protocol together with the unordered pair of (address, port)        *)
(* endpoints.                                                              *)
(***************************************************************************)
EXTENDS Integers, Sequences, FiniteSets, TLC

VARIABLES pc, result, fn, ctxDone, npkts, sessionBuffers, cur, hist, ev, ch

vars == <<pc, result, fn, ctxDone, npkts, sessionBuffers, cur, hist, ev, ch>>

(***************************************************************************)
(* Bounds of the model.                                                    *)
(***************************************************************************)
\* number of packets the packet source delivers before it is closed
MaxPackets == 4
\* longest payload of one packet
MaxPayload == 2
\* longest buffer offered to the data handler
MaxBuf == 3
\* most network devices of the host
MaxDevs == 2

Bytes == {"a", "b"}

\* (address, port) endpoints seen on the wire: the connections {E1, E3} and
\* {E2, E3} have the same port pair and different addresses, {E1, E2} has
\* another port pair
Endpoints == {<<1, 1>>, <<2, 1>>, <<1, 2>>}
Ports == {e[2] : e \in Endpoints}

SeqsUpTo(n) == UNION {[1..k -> Bytes] : k \in 0..n}
Payloads == SeqsUpTo(MaxPayload)

\* a missing key of the map: a value that is no sequence of Bytes
Absent == <<"absent">>
\* a nil pointer, interface, address or error
Nil == "nil"

(***************************************************************************)
(* Flow identifier: tcp.TransportFlow().FastHash().  The transport flow    *)
(* holds the two PORTS only; FastHash adds the hashes of the two endpoints *)
(* (commutative, so both directions agree), mixes in the endpoint type and *)
(* multiplies by an odd prime.  PortHash stands for the FNV hash of a port *)
(* and is chosen free of collisions; the zero value 0 of flowHash is the   *)
(* key of no TCP or UDP flow.                                              *)
(***************************************************************************)
TCP == 1
UDP == 2
FnvPrime == 3

PortHash(p) == 4 * (2 ^ p)

FastHash(typ, sport, dport) == (PortHash(sport) + PortHash(dport) + typ) * FnvPrime

PortPairs == {<<e[2], f[2]>> : <<e, f>> \in {x \in Endpoints \X Endpoints : x[1] # x[2]}}
TCPKeys == {FastHash(TCP, pp[1], pp[2]) : pp \in PortPairs}
UDPKeys == {FastHash(UDP, pp[1], pp[2]) : pp \in PortPairs}
Keys == {0} \cup TCPKeys \cup UDPKeys

(***************************************************************************)
(* Packets delivered by the packet source.  The TCP or UDP header of an    *)
(* IPv4 packet that announces TCP or UDP is decoded; src and dst are the   *)
(* (address, port) endpoints handed to the data handler.                   *)
(***************************************************************************)
TCPPackets ==
    {p \in [net : {"ipv4"}, proto : {"tcp"}, src : Endpoints, dst : Endpoints,
            SYN : BOOLEAN, ACK : BOOLEAN, FIN : BOOLEAN, payload : Payloads] :
        p.src # p.dst}

UDPPackets ==
    {p \in [net : {"ipv4"}, proto : {"udp"}, src : Endpoints, dst : Endpoints,
            SYN : {FALSE}, ACK : {FALSE}, FIN : {FALSE}, payload : Payloads] :
        p.src # p.dst}

\* an IPv4 packet of another transport (ICMP, a fragment, ...)
OtherPackets ==
    [net : {"ipv4"}, proto : {"other"}, src : {<<1, 1>>}, dst : {<<1, 1>>},
     SYN : {FALSE}, ACK : {FALSE}, FIN : {FALSE}, payload : {<<>>}]

\* a packet without an IPv4 layer (ARP, IPv6, ...)
NonIPv4Packets ==
    [net : {"none"}, proto : {"other"}, src : {<<1, 1>>}, dst : {<<1, 1>>},
     SYN : {FALSE}, ACK : {FALSE}, FIN : {FALSE}, payload : {<<>>}]

Packets == TCPPackets \cup UDPPackets \cup OtherPackets \cup NonIPv4Packets

\* the logical flow of a packet: protocol and unordered pair of endpoints
Conn(p) == <<p.proto, {p.src, p.dst}>>

\* flowHash of a TCP or UDP packet
FlowHash(p) == FastHash(IF p.proto = "tcp" THEN TCP ELSE UDP, p.src[2], p.dst[2])

(***************************************************************************)
(* Steps of the loop body.                                                 *)
(***************************************************************************)
\* pkg.Layer(layers.LayerTypeIPv4): the layer, or a nil interface
Layer(p) == IF p.net = "ipv4" THEN "ipv4" ELSE Nil

\* x.(*layers.IPv4) without ", ok": panics on a nil interface
TypeAssert(layer) == IF layer = Nil THEN "panic" ELSE layer

\* a handshake that creates no entry
HandshakeNone(t, h) == t

\* a handshake that keeps the buffer of a flow that is already active
HandshakeKeep(t, h) == IF t[h] = Absent THEN [t EXCEPT ![h] = <<>>] ELSE t

\* sessionBuffers[flowHash] = make([]byte, 0, defaultTCPBufferLen)
Handshake(t, h) == [t EXCEPT ![h] = <<>>]

\* a teardown that truncates the buffer and keeps the entry
TeardownTruncate(t, h) == [t EXCEPT ![h] = <<>>]

\* delete(sessionBuffers, flowHash)
Teardown(t, h) == [t EXCEPT ![h] = Absent]

\* a lookup that reports every flow as present
BufferExistAlways(t, h) == TRUE

\* buffer, bufferExist = sessionBuffers[flowHash]
BufferExist(t, h) == t[h] # Absent

\* an append that puts the new payload in front of the stored bytes
AppendPayloadFront(buffer, payload) == payload \o buffer

\* append(buffer, payload...) on the local copy of the slice
AppendPayload(buffer, payload) == buffer \o payload

\* buffer[:len(buffer)-usedSize]: keeps the head in place of the tail
ResidualHead(buffer, usedSize) == SubSeq(buffer, 1, Len(buffer) - usedSize)

\* buffer[usedSize:]
Residual(buffer, usedSize) == SubSeq(buffer, usedSize + 1, Len(buffer))

\* a loop that does not know the end-of-stream sentinel
IsEOFNever(err) == FALSE

\* err == io.EOF
IsEOF(err) == err = "EOF"

NoCall == [src |-> Nil, dst |-> Nil, flowHash |-> 0, buffer |-> <<>>,
           payload |-> <<>>, proto |-> "none"]

(***************************************************************************)
(* Observation of the run, computed from the inputs alone and not from the *)
(* branch the loop takes: ev is the last packet taken or the last reply of *)
(* the data handler, hist[h] the last thing that happened to flow h.       *)
(***************************************************************************)
\* class of a packet, by its headers
PacketClass(p) ==
    IF p.net # "ipv4" THEN "noipv4"
    ELSE IF p.proto = "tcp"
    THEN IF p.SYN /\ p.ACK THEN "syn"
         ELSE IF p.FIN /\ p.ACK THEN "fin"
         ELSE IF p.payload = <<>> THEN "tcpempty"
         ELSE "tcpdata"
    ELSE IF p.proto = "udp" THEN "udp"
    ELSE "other"

\* flow identifier of a packet; 0 when it has no TCP or UDP header
PacketKey(p) ==
    IF p.net = "ipv4" /\ p.proto \in {"tcp", "udp"} THEN FlowHash(p) ELSE 0

\* class of a reply (usedSize, err) to a buffer of length n
ReplyClass(n, usedSize, err) ==
    IF err = "EOF" THEN "eof"
    ELSE IF err # Nil THEN "err"
    ELSE IF usedSize = n THEN "full"
    ELSE IF 0 <= usedSize /\ usedSize < n THEN "part"
    ELSE "bad"

\* the last n - k bytes of b
Drop(b, k) == [i \in 1..(Len(b) - k) |-> b[i + k]]

\* what the table held for a key, up to the bytes
Shape(b) == IF b = Absent THEN "absent" ELSE IF b = <<>> THEN "empty" ELSE "bytes"

Event(kind, key, old) == [kind |-> kind, key |-> key, old |-> Shape(old)]

\* owed of a flow whose stream is not followed: no handshake yet, torn
\* down, or an error reply since the handshake
Untracked == <<"untracked">>

NoHist == [how |-> "none", want |-> <<>>, owed |-> Untracked]

\* hist after a packet of class c and key h was taken
HistPacket(c, h) ==
    IF c = "syn"
    THEN [hist EXCEPT ![h] = [how |-> c, want |-> <<>>, owed |-> <<>>]]
    ELSE IF c = "fin"
    THEN [hist EXCEPT ![h] = [how |-> c, want |-> <<>>, owed |-> Untracked]]
    ELSE hist

\* owed after the reply (usedSize, err) of class c to an offer that followed
\* the payload p: the bytes that arrived since the handshake less the
\* usedSize bytes the data handler took from the front
OwedReply(owed, p, usedSize, c) ==
    IF owed = Untracked \/ c = "err" THEN Untracked
    ELSE Drop(owed \o p, usedSize)

\* hist after the reply (usedSize, err) to buffer b, offered for an active
\* flow h; want is what is left of b for the next offer
HistReply(h, b, usedSize, err) ==
    LET c == ReplyClass(Len(b), usedSize, err) IN
    IF sessionBuffers[h] = Absent \/ c \in {"eof", "bad"} THEN hist
    ELSE [hist EXCEPT ![h] =
            [how |-> c,
             want |-> IF c = "err" THEN b ELSE Drop(b, usedSize),
             owed |-> OwedReply(hist[h].owed, cur.payload, usedSize, c)]]

(***************************************************************************)
(* CreateHandler: the data source "proto://source" is a sequence of its    *)
(* parts; ch is the state of one call.                                     *)
(***************************************************************************)
Sources == {"eth0", "10.0.0.1", "10.0.0.2", "trace.pcap", "localhost"}

DataSrcs ==
    {<<proto, "://", source>> : proto \in {"pcap", "file"}, source \in Sources}
        \cup {<<"eth0">>, <<"http", "://", "eth0">>}

\* network devices of the host, and the results of libpcap.FindAllDevs()
Ifaces ==
    {[Name |-> "eth1", Addresses |-> {"10.0.0.1"}],
     [Name |-> "eth2", Addresses |-> {"10.0.0.1", "10.0.0.2"}],
     [Name |-> "lo", Addresses |-> {"127.0.0.1"}]}

DevLists ==
    {l \in UNION {[1..k -> Ifaces] : k \in 0..MaxDevs} :
        \A i \in 1..Len(l), j \in 1..Len(l) : i # j => l[i] # l[j]}

DevResults == [err : {FALSE}, list : DevLists] \cup [err : {TRUE}, list : {<<>>}]

\* dataSourcePattern.FindStringSubmatch: ^(?P<proto>pcap|file)://(?P<source>.*)$
\* (ok is FALSE for the nil result)
FindStringSubmatch(dataSrc) ==
    IF Len(dataSrc) = 3 /\ dataSrc[1] \in {"pcap", "file"} /\ dataSrc[2] = "://"
    THEN [ok |-> TRUE, proto |-> dataSrc[1], source |-> dataSrc[3]]
    ELSE [ok |-> FALSE, proto |-> Nil, source |-> Nil]

\* net.ResolveIPAddr("ip", source): the address of a literal or of a host
\* name, Nil for an error
ResolveIPAddr(source) ==
    IF source \in {"10.0.0.1", "10.0.0.2"} THEN source
    ELSE IF source = "localhost" THEN "127.0.0.1"
    ELSE Nil

\* the loop FIND_IFACE: the name of the first device that owns ip, or source
FindIface(list, ip, source) ==
    LET owners == {i \in 1..Len(list) : ip \in list[i].Addresses} IN
    IF owners = {} THEN source
    ELSE list[CHOOSE i \in owners : \A j \in owners : i <= j].Name

IdleCreate == [pc |-> "idle", dataSrc |-> <<>>, devs |-> [err |-> FALSE, list |-> <<>>],
               opener |-> Nil, locator |-> Nil, err |-> Nil]

CreateResult(c, opener, locator, err) ==
    [c EXCEPT !.pc = "done", !.opener = opener, !.locator = locator, !.err = err]

\* CreateHandler(dataSrc), with devs the result of FindAllDevs and openOK
\* the success of the open call
CreateHandler(openOK) ==
    /\ ch.pc = "input"
    /\ UNCHANGED <<pc, result, fn, ctxDone, npkts, sessionBuffers, cur, hist, ev>>
    /\ LET srcMatch == FindStringSubmatch(ch.dataSrc) IN
       IF ~srcMatch.ok
       THEN ch' = CreateResult(ch, Nil, Nil, "invalid data source")
       ELSE LET ip == ResolveIPAddr(srcMatch.source)
                source == IF ip # Nil /\ ~ch.devs.err
                          THEN FindIface(ch.devs.list, ip, srcMatch.source)
                          ELSE srcMatch.source
            IN
            IF ip # Nil /\ ch.devs.err
            THEN ch' = CreateResult(ch, Nil, Nil, "FindAllDevs")
            ELSE IF srcMatch.proto = "pcap"
            THEN ch' = CreateResult(ch, "OpenLive", source,
                                    IF openOK THEN Nil ELSE "OpenLive")
            ELSE IF srcMatch.proto = "file"
            THEN ch' = CreateResult(ch, "OpenOffline", source,
                                    IF openOK THEN Nil ELSE "OpenOffline")
            ELSE ch' = CreateResult(ch, Nil, Nil, "unknown pcap protocol")

InitCreate ==
    /\ pc = "start"
    /\ result = "none"
    /\ fn = "set"
    /\ ctxDone = FALSE
    /\ npkts = 0
    /\ sessionBuffers = [h \in Keys |-> Absent]
    /\ cur = NoCall
    /\ hist = [h \in Keys |-> NoHist]
    /\ ev = Event("init", 0, Absent)
    /\ ch \in [pc : {"input"}, dataSrc : DataSrcs, devs : DevResults,
               opener : {Nil}, locator : {Nil}, err : {Nil}]

NextCreate == \E openOK \in BOOLEAN : CreateHandler(openOK)

SpecCreate == InitCreate /\ [][NextCreate]_vars

Init ==
    /\ pc = "start"
    /\ result = "none"
    /\ fn \in {"set", Nil}
    /\ ctxDone = FALSE
    /\ npkts = 0
    /\ sessionBuffers = [h \in Keys |-> Absent]
    /\ cur = NoCall
    /\ hist = [h \in Keys |-> NoHist]
    /\ ev = Event("init", 0, Absent)
    /\ ch = IdleCreate

\* handler.SetBPFFilter(filter)
SetBPFFilter ==
    /\ pc = "start"
    /\ \E ok \in BOOLEAN :
          IF ok
          THEN /\ pc' = "select"
               /\ result' = result
               /\ ev' = Event("filter", 0, Absent)
          ELSE /\ pc' = "done"
               /\ result' = "filterErr"
               /\ ev' = Event("filterErr", 0, Absent)
    /\ UNCHANGED <<fn, ctxDone, npkts, sessionBuffers, cur, hist, ch>>

\* the owner of ctx cancels it (a nil ctx is context.Background(): never)
Cancel ==
    /\ pc # "done"
    /\ ~ctxDone
    /\ ctxDone' = TRUE
    /\ UNCHANGED <<pc, result, fn, npkts, sessionBuffers, cur, hist, ev, ch>>

\* case <-ctx.Done(): return nil
CtxDoneBranch ==
    /\ pc = "select"
    /\ ctxDone
    /\ pc' = "done"
    /\ result' = "nil"
    /\ ev' = Event("ctx", 0, Absent)
    /\ UNCHANGED <<fn, ctxDone, npkts, sessionBuffers, cur, hist, ch>>

\* case pkg := <-packets with the channel closed: pkg == nil, return nil
PacketsClosed ==
    /\ pc = "select"
    /\ pc' = "done"
    /\ result' = "nil"
    /\ ev' = Event("closed", 0, Absent)
    /\ UNCHANGED <<fn, ctxDone, npkts, sessionBuffers, cur, hist, ch>>

\* continue: next iteration, with the table t
Continue(t) ==
    /\ pc' = "select"
    /\ result' = result
    /\ sessionBuffers' = t
    /\ cur' = NoCall

\* return or panic out of the loop
Return(r) ==
    /\ pc' = "done"
    /\ result' = r
    /\ sessionBuffers' = sessionBuffers
    /\ cur' = NoCall

\* fn(src, dst, buffer) is entered
Call(p, src, dst, key, buffer) ==
    /\ pc' = "calling"
    /\ result' = result
    /\ sessionBuffers' = sessionBuffers
    /\ cur' = [src |-> src, dst |-> dst, flowHash |-> key, buffer |-> buffer,
               payload |-> p.payload, proto |-> p.proto]

\* case pkg := <-packets: the loop body up to the call of fn
RecvPacket(p) ==
    /\ pc = "select"
    /\ npkts < MaxPackets
    /\ npkts' = npkts + 1
    /\ UNCHANGED <<fn, ctxDone, ch>>
    /\ ev' = Event(PacketClass(p), PacketKey(p), sessionBuffers[PacketKey(p)])
    /\ hist' = HistPacket(PacketClass(p), PacketKey(p))
    /\ IF fn = Nil
       THEN Continue(sessionBuffers)
       ELSE IF TypeAssert(Layer(p)) = "panic"
       THEN Return("panic")
       ELSE IF TypeAssert(Layer(p)) = Nil
       THEN Return("invalidIPv4")
       ELSE IF p.proto = "tcp"
       THEN LET h == FlowHash(p) IN
            IF p.SYN /\ p.ACK
            THEN Continue(Handshake(sessionBuffers, h))
            ELSE IF p.FIN /\ p.ACK
            THEN Continue(Teardown(sessionBuffers, h))
            ELSE IF Len(p.payload) <= 0
            THEN Continue(sessionBuffers)
            ELSE IF ~BufferExist(sessionBuffers, h)
            THEN Continue(sessionBuffers)
            ELSE /\ Len(sessionBuffers[h]) + Len(p.payload) <= MaxBuf
                 /\ Call(p, p.src, p.dst, h, AppendPayload(sessionBuffers[h], p.payload))
       ELSE IF p.proto = "udp"
       THEN LET h == FlowHash(p) IN
            IF BufferExist(sessionBuffers, h)
            THEN /\ Len(sessionBuffers[h]) + Len(p.payload) <= MaxBuf
                 /\ Call(p, p.src, p.dst, h, AppendPayload(sessionBuffers[h], p.payload))
            ELSE Call(p, p.src, p.dst, h, <<>>)
       ELSE Call(p, Nil, Nil, 0, <<>>)

\* errors the data handler may return
Errors == {Nil, "EOF", "err"}

\* usedSize, err = fn(src, dst, buffer) returns, and the rest of the body
ConsumerReturn(usedSize, err) ==
    /\ pc = "calling"
    /\ UNCHANGED <<fn, ctxDone, npkts, ch>>
    /\ ev' = Event(ReplyClass(Len(cur.buffer), usedSize, err), cur.flowHash,
                   sessionBuffers[cur.flowHash])
    /\ hist' = HistReply(cur.flowHash, cur.buffer, usedSize, err)
    /\ LET h == cur.flowHash
           b == cur.buffer
       IN
       IF err # Nil
       THEN IF IsEOF(err)
            THEN Return("nil")
            ELSE Continue(sessionBuffers)
       ELSE IF Len(b) # usedSize
       THEN IF usedSize < 0 \/ usedSize > Len(b)
            THEN Return("panic")
            ELSE Continue([sessionBuffers EXCEPT ![h] = Residual(b, usedSize)])
       ELSE Continue(sessionBuffers)

Next ==
    \/ SetBPFFilter
    \/ Cancel
    \/ CtxDoneBranch
    \/ PacketsClosed
    \/ \E p \in Packets : RecvPacket(p)
    \/ \E usedSize \in (-1)..(MaxBuf + 1), err \in Errors : ConsumerReturn(usedSize, err)

Spec == Init /\ [][Next]_vars

TypeOK ==
    /\ pc \in {"start", "select", "calling", "done"}
    /\ result \in {"none", "nil", "filterErr", "invalidIPv4", "panic"}
    /\ npkts \in 0..MaxPackets
    /\ \A h \in Keys : sessionBuffers[h] = Absent \/ Len(sessionBuffers[h]) <= MaxBuf

(***************************************************************************)
(* Properties of the capture loop.                                         *)
(***************************************************************************)

\* C1: full consumption drains.  When the last reply of the data handler
\* for an active flow h was (len(buffer), nil), the buffer of the next call
\* for h is the payload of the packet that triggers it and nothing else.
C1_FullConsumptionDrains ==
    \A h \in Keys :
        (pc = "calling" /\ cur.flowHash = h /\ hist[h].how = "full")
            => cur.buffer = cur.payload

\* C2: partial consumption retains the residual.  After a reply (k, nil)
\* with 0 <= k < len(b) to the buffer b of an active flow h, the stored
\* buffer of h is b[k:], and the next payload p of h is offered as b[k:]
\* followed by p.
C2_PartialRetainsResidual ==
    \A h \in Keys :
        hist[h].how = "part"
            => /\ sessionBuffers[h] = hist[h].want
               /\ (pc = "calling" /\ cur.flowHash = h)
                     => cur.buffer = hist[h].want \o cur.payload

\* C2 witness: a residual of one byte is offered again in front of a new
\* payload of two bytes (the shape of "AB", "CD" with consumed = 1).
C2_Witness ==
    /\ pc = "calling"
    /\ hist[cur.flowHash].how = "part"
    /\ Len(hist[cur.flowHash].want) = 1
    /\ Len(cur.payload) = 2
    /\ Len(cur.buffer) = 3

\* C3: an error of the data handler other than end-of-stream keeps the
\* bytes.  After such a reply to the buffer b of an active flow h, no byte of
\* b is lost: b is what is stored for h, and the next payload p of h is
\* offered as b followed by p.
C3_ErrorKeepsBytes ==
    \A h \in Keys :
        hist[h].how = "err"
            => /\ sessionBuffers[h] = hist[h].want
               /\ (pc = "calling" /\ cur.flowHash = h)
                     => cur.buffer = hist[h].want \o cur.payload

C5_TeardownClears ==
    /\ [](\A h \in Keys :
             hist[h].how = "fin"
                => /\ sessionBuffers[h] = Absent
                   /\ ~(pc = "calling" /\ cur.flowHash = h))
    /\ [](ev.kind = "fin" => pc = "select")
    /\ [][(npkts' # npkts /\ ev'.kind \in {"tcpdata", "tcpempty"}
             /\ hist[ev'.key].how = "fin")
            => (sessionBuffers' = sessionBuffers /\ pc' = "select")]_vars

\* C5 witness: a payload packet was dropped for a flow that was active and
\* then torn down.
C5_Witness ==
    /\ ev.kind = "tcpdata"
    /\ hist[ev.key].how = "fin"
    /\ pc = "select"
    /\ npkts >= 3

\* C6: end-of-stream stops the loop.  When the data handler returns io.EOF
\* StartCapture returns nil, that step leaves the session table as it was,
\* and after the return nothing happens any more: no packet is taken and
\* the data handler is not called.
C6_EndOfStreamStops ==
    /\ [](ev.kind = "eof" => (pc = "done" /\ result = "nil"))
    /\ [][(pc = "calling" /\ ev'.kind = "eof")
            => sessionBuffers' = sessionBuffers]_vars
    /\ [][pc = "done" => UNCHANGED vars]_vars

\* C6 witness: the loop ended on io.EOF with packets left in the source.
C6_Witness ==
    /\ ev.kind = "eof"
    /\ pc = "done"
    /\ npkts < MaxPackets

\* the logical flows on the wire and the key of each
Conns ==
    {<<pr, {e, f}>> : pr \in {"tcp", "udp"},
                      <<e, f>> \in {x \in Endpoints \X Endpoints : x[1] # x[2]}}
ConnKey(c) ==
    LET e == CHOOSE x \in c[2] : TRUE
        f == CHOOSE y \in c[2] : y # e
    IN FastHash(IF c[1] = "tcp" THEN TCP ELSE UDP, e[2], f[2])

\* C7: flow isolation.  Taking a packet of the logical flow c1 never
\* changes the buffer of another logical flow c2, the entry of the session
\* table under the flow identifier of c2.
C7_FlowIsolation ==
    [][\A p \in TCPPackets \cup UDPPackets :
          (pc = "select" /\ npkts' # npkts /\ RecvPacket(p))
            => \A c2 \in Conns :
                  c2 # Conn(p)
                    => sessionBuffers'[ConnKey(c2)] = sessionBuffers[ConnKey(c2)]]_vars

\* C8: UDP passthrough without creation.  A UDP packet of a flow without an
\* entry has the data handler offered an empty buffer, no UDP flow ever gets
\* an entry, and the loop does not crash on it, whatever the data handler
\* returns.
C8_UDPPassthrough ==
    /\ (pc = "calling" /\ cur.proto = "udp") => cur.buffer = <<>>
    /\ \A h \in UDPKeys : sessionBuffers[h] = Absent
    /\ ev.key \in UDPKeys => result # "panic"

\* C9: cancellation stops packet processing.  An iteration that starts with
\* the context done returns nil and takes no packet.
C9_CancellationStops ==
    [][(ctxDone /\ pc = "select")
         => (pc' = "done" /\ result' = "nil" /\ npkts' = npkts)]_vars

\* C10: a packet without an IPv4 layer is a fatal error value.  Whenever the
\* loop takes such a packet, StartCapture ends and returns the error "not a
\* valid IPv4 packet", with or without a data handler.
C10_InvalidNetworkLayerFatal ==
    ev.kind = "noipv4" => (pc = "done" /\ result = "invalidIPv4")

\* C11: an unsupported transport is skipped.  After an IPv4 packet that is
\* neither TCP nor UDP is taken, the loop is at its next iteration: the data
\* handler is not called, the table is unchanged, and the loop has neither
\* returned nor crashed.
C11_UnsupportedTransportSkipped ==
    /\ [](ev.kind = "other" => (pc = "select" /\ result = "none"))
    /\ [][(npkts' # npkts /\ ev'.kind = "other")
            => sessionBuffers' = sessionBuffers]_vars

\* C12: outcome taxonomy.  StartCapture returns nil when it ends by
\* end-of-stream, by exhaustion of the packet source or by cancellation; an
\* error of the data handler other than end-of-stream leaves the loop
\* running; and every other end of StartCapture is an error value, either
\* the filter failure at startup or the error for a packet without an IPv4
\* layer, which such a packet does produce.
C12_OutcomeTaxonomy ==
    /\ ev.kind \in {"eof", "closed", "ctx"} => (pc = "done" /\ result = "nil")
    /\ ev.kind = "err" => (pc = "select" /\ result = "none")
    /\ (pc = "done" /\ result # "nil")
          => \/ (result = "filterErr" /\ ev.kind = "filterErr")
             \/ (result = "invalidIPv4" /\ ev.kind = "noipv4")
    /\ (fn # Nil /\ ev.kind = "noipv4") => result = "invalidIPv4"

\* C14: termination on a finite source.  StartCapture ends by returning a
\* value, never otherwise, and when it ends because the packet source is
\* exhausted the value is nil.
C14_ReturnsOnFiniteSource ==
    /\ pc = "done" => result \in {"nil", "filterErr", "invalidIPv4"}
    /\ ev.kind = "closed" => (pc = "done" /\ result = "nil")

\* C15: the data handler is called in the append and passthrough branches
\* only.  A TCP packet with SYN and ACK, with FIN and ACK, without payload,
\* or with payload for a flow without entry leads to no call, and the last
\* two leave the session table as it was.
C15_NoCallOutsideAppend ==
    /\ []((ev.kind \in {"syn", "fin", "tcpempty"}
             \/ (ev.kind = "tcpdata" /\ ev.old = "absent"))
            => pc = "select")
    /\ [][(npkts' # npkts
             /\ (ev'.kind = "tcpempty"
                   \/ (ev'.kind = "tcpdata" /\ sessionBuffers[ev'.key] = Absent)))
            => sessionBuffers' = sessionBuffers]_vars

\* C15 witness: with a data handler registered, a payload packet of a flow
\* without entry was dropped while another flow was active.
C15_Witness ==
    /\ fn # Nil
    /\ ev.kind = "tcpdata"
    /\ ev.old = "absent"
    /\ pc = "select"
    /\ \E h \in TCPKeys : sessionBuffers[h] # Absent

\* C17: buffer monotonicity.  Apart from the handshake and the teardown of
\* a flow h, the stored buffer of h changes only on a reply of the data
\* handler that reports a consumed prefix, and then into a suffix of the
\* old buffer followed by the payload of the packet just taken: bytes are
\* appended at the end and removed at the front, nothing else.
C17_BufferMonotone ==
    [][\A h \in Keys :
          (sessionBuffers'[h] # sessionBuffers[h]
             /\ ~(npkts' # npkts /\ ev'.kind \in {"syn", "fin"} /\ ev'.key = h))
            => /\ pc = "calling"
               /\ h = cur.flowHash
               /\ ev'.kind = "part"
               /\ sessionBuffers[h] # Absent
               /\ \E k \in 0..(Len(sessionBuffers[h]) + Len(cur.payload)) :
                     sessionBuffers'[h] = Drop(sessionBuffers[h] \o cur.payload, k)]_vars

\* C17 witness: a reply consumed a prefix of residual bytes plus new
\* payload and left bytes behind.
C17_Witness ==
    /\ ev.kind = "part"
    /\ ev.old = "bytes"
    /\ sessionBuffers[ev.key] \notin {Absent, <<>>}

\* C19: cancellation liveness.  Once the context is done the loop ends with
\* the result nil; it does not end while a call of the data handler is in
\* flight, and nothing but the return of the data handler ends that call.
C19_CancelReturnsNil ==
    /\ [](( pc = "done" /\ ctxDone /\ ev.kind # "filterErr") => result = "nil")
    /\ [][pc = "calling" => (pc' = "calling" \/ ev'.key = cur.flowHash)]_vars
    /\ [][(pc = "calling" /\ pc' # "calling")
            => ev'.kind \in {"eof", "err", "full", "part", "bad"}]_vars

\* a SYN+ACK of flow h was taken and no FIN+ACK of it since
Opened(h) == hist[h].how \notin {"none", "fin"}

C18_ExactlyOnce ==
    \A h \in TCPKeys :
        (sessionBuffers[h] # Absent /\ hist[h].owed # Untracked)
            => /\ sessionBuffers[h] = hist[h].owed
               /\ (pc = "calling" /\ cur.flowHash = h)
                     => cur.buffer = hist[h].owed \o cur.payload

\* C13: replay locator passthrough.  For a data source "file://source" the
\* locator handed to the opener of capture files is exactly source, for
\* every source and every list of network devices.
C13_ReplayPassthrough ==
    (ch.pc = "done" /\ Len(ch.dataSrc) = 3 /\ ch.dataSrc[1] = "file"
       /\ ch.dataSrc[2] = "://")
        => (ch.opener = "OpenOffline" /\ ch.locator = ch.dataSrc[3])

=============================================================================
